---------------------------- MODULE Spec2Model ----------------------------
(***************************************************************************)
(* Model of the photo critic application: the App component's workflow     *)
(* state (selection -> analysis -> edit -> re-analysis) together with the  *)
(* asynchronous handlers of App and the two remote operations of           *)
(* services/geminiService.ts.                                              *)
(*                                                                         *)
(* A nullable value of the program is a sequence of length <= 1: Null is   *)
(* <<>> and a present value x is <<x>>.  An image payload is a sequence of *)
(* strings: <<"a">> is the picture of a user file and Append(img, "edit")  *)
(* is the picture the remote edit operation makes from img.                *)
(*                                                                         *)
(* Specifications: Spec is App's workflow and LiveSpec the same with the    *)
(* promises that handlers await settling in the end; HelperSpec is the     *)
(* aspect-ratio helper of generateImprovedImage, called on each image size *)
(* and each list of edit instructions; ViewerSpec is the mounted           *)
(* ComparisonView under mouse and touch events, PanSpec the same with the  *)
(* history of its pan drags, and PairSpec is App together with the viewer  *)
(* it mounts and unmounts.  The scale and the slider position of the       *)
(* viewer are exact fractions [n, d] in lowest terms.                      *)
(***************************************************************************)
EXTENDS Integers, Sequences, FiniteSets, TLC

\* ------------------------------------------------------------------ bounds

\* Longest chain of edits of an edit the model follows (an edited picture
\* can be re-analysed and edited again without end).
MaxEditDepth == 1

\* Most requests the model lets be underway at once (the program's own
\* gating keeps this at one; the cap only ends runs of a broken gating).
MaxInflight == 2

\* Image widths and heights run from 1 to MaxDim (and a few photo sizes), and
\* an analysis given to the aspect-ratio helper has at most MaxEdits edits.
MaxDim == 8
MaxEdits == 2

\* A pan drag moves the pictures at most MaxPan pixels from their place in
\* each direction.
MaxPan == 1

\* ------------------------------------------------------------------ values

Null == <<>>
Some(x) == <<x>>
Val(o) == o[1]

\* The files the user can pick (ImageUpload hands a File or null to
\* onImageSelect).
Files ==
  { [name |-> "a.jpg", type |-> "image/jpeg", data |-> <<"a">>],
    [name |-> "b.jpg", type |-> "image/jpeg", data |-> <<"b">>] }

\* URL.createObjectURL(file): a URL that designates the file's bytes.
createObjectURL(file) == [scheme |-> "blob", data |-> file.data]

\* `data:image/png;base64,${improvedImageBase64}`
DataUrl(img) == [scheme |-> "data", data |-> img]

\* fetch(newImageSrc) -> blob -> new File([blob], "improved-photo.png",
\* {type: blob.type}): the file holds the bytes the data URL encodes.
FileFromDataUrl(url) ==
  [name |-> "improved-photo.png", type |-> "image/png", data |-> url.data]

\* img.width and img.height of a loaded picture: a.jpg is a 1920 x 1080
\* picture, b.jpg a 3 x 4 one, and an edited picture has its source's size.
ImageSize(img) ==
  IF img[1] = "a" THEN [width |-> 1920, height |-> 1080]
  ELSE [width |-> 3, height |-> 4]

\* The picture the remote edit operation returns for a source picture.
Edited(img) == Append(img, "edit")

\* JSON values of a remote analysis response, tagged with their JS type.
JNum(n) == [t |-> "number", v |-> <<n>>]
JStr(s) == [t |-> "string", v |-> <<s>>]
JArr(s) == [t |-> "array", v |-> s]
JUndefined == [t |-> "undefined", v |-> <<>>]

\* typeof x and Array.isArray(x)
typeof(x) == IF x.t = "array" THEN "object" ELSE x.t
isArray(x) == x.t = "array"

SuggestedEdit(e) == [edit |-> e, reason |-> "because"]

Json(rating, edits) ==
  [rating |-> rating, projected_rating |-> JNum(9),
   composition |-> JStr("c"), lighting |-> JStr("l"), subject |-> JStr("s"),
   overall_comment |-> JStr("o"), suggested_edits |-> edits]

\* Edit instructions are texts, sequences of characters.
ThreeEdits ==
  JArr(<<SuggestedEdit(<<"d", "i", "m">>), SuggestedEdit(<<"c", "r", "o", "p">>),
         SuggestedEdit(<<"b", "l", "u", "r">>)>>)

\* Edit instructions that name a ratio.
RatioEdits ==
  JArr(<<SuggestedEdit(<<"C", "r", "o", "p", " ", "1", "6", ":", "9">>),
         SuggestedEdit(<<"d", "i", "m">>)>>)

\* What the remote analysis operation may answer: two well-formed critiques
\* that differ, one more whose two edits name a ratio, one whose rating is a
\* string, one without suggested_edits,
\* one for each other field with a value of the wrong type, and one with two
\* such fields.
Responses ==
  { Json(JNum(6), ThreeEdits),
    Json(JNum(8), ThreeEdits),
    Json(JNum(7), RatioEdits),
    Json(JStr("7"), ThreeEdits),
    Json(JNum(6), JUndefined),
    [Json(JNum(6), ThreeEdits) EXCEPT !.projected_rating = JStr("9")],
    [Json(JNum(6), ThreeEdits) EXCEPT !.composition = JNum(1)],
    [Json(JNum(6), ThreeEdits) EXCEPT !.lighting = JUndefined],
    [Json(JNum(6), ThreeEdits) EXCEPT !.subject = JArr(<<>>)],
    [Json(JNum(6), ThreeEdits) EXCEPT !.overall_comment = JNum(0)],
    [Json(JNum(6), JStr("none")) EXCEPT !.lighting = JNum(2)] }

\* A variant of the validation that does not look at the subject.
ValidAnalysis_IgnoresSubject(parsedJson) ==
  ~ ( \/ typeof(parsedJson.rating) # "number"
      \/ typeof(parsedJson.projected_rating) # "number"
      \/ typeof(parsedJson.composition) # "string"
      \/ typeof(parsedJson.lighting) # "string"
      \/ typeof(parsedJson.overall_comment) # "string"
      \/ ~isArray(parsedJson.suggested_edits) )

\* The "Type validation" of analyzeImage.
ValidAnalysis(parsedJson) ==
  ~ ( \/ typeof(parsedJson.rating) # "number"
      \/ typeof(parsedJson.projected_rating) # "number"
      \/ typeof(parsedJson.composition) # "string"
      \/ typeof(parsedJson.lighting) # "string"
      \/ typeof(parsedJson.subject) # "string"
      \/ typeof(parsedJson.overall_comment) # "string"
      \/ ~isArray(parsedJson.suggested_edits) )

\* Error messages of the program.
MsgSelectFirst == "Please select an image file first."
MsgAnalysisUnknown == "An unknown error occurred during analysis."
MsgGeminiAnalysis ==
  "Failed to get analysis from Gemini. Please check the console for more details."
MsgStructure ==
  "API response does not match the expected PhotoAnalysis structure."
MsgNoApiKey == "API_KEY environment variable not set"
MsgReanalyze == "Failed to re-analyze the improved image."
MsgEditUnknown == "Failed to generate edited image."
MsgGeminiEdit == "Failed to generate improved image."

\* ------------------------------------------------------------------- state

VARIABLES
  hasApiKey, checkingKey,      \* App: API key gate
  envApiKey,                   \* process.env.API_KEY is set
  selectedFile, previewUrl,    \* App: the held source image
  analysisResult,              \* App: the held analysis
  isLoadingAnalysis, analysisError,
  isEditing, editedImage, editError,
  inflight,                    \* the suspended async handlers, oldest first
  lastEvent                    \* history: the event that led to this state

appVars ==
  <<selectedFile, previewUrl, analysisResult, isLoadingAnalysis,
    analysisError, isEditing, editedImage, editError>>

keyVars == <<hasApiKey, checkingKey, envApiKey>>

\* generateImprovedImage: the arguments the aspect-ratio helper is called
\* with and the ratio it returned (null before the call).
VARIABLES originalWidth, originalHeight, suggested_edits, targetAspectRatio

helperVars ==
  <<originalWidth, originalHeight, suggested_edits, targetAspectRatio>>

\* ComparisonView: the state of the mounted viewer.
VARIABLES isResizing, sliderPosition, scale, pan, isPanning, panStartRef

viewerVars ==
  <<isResizing, sliderPosition, scale, pan, isPanning, panStartRef>>

\* History: the pan and the pointer at the start of the pan drag under way
\* (null when none is, and where no such history is kept).
VARIABLE panDragStart

\* What belongs to the parts below App; App's handlers leave it alone.
partVars == <<helperVars, viewerVars, panDragStart>>

vars == <<keyVars, appVars, inflight, lastEvent, partVars>>

\* A suspended async handler: which handler, the await it is suspended at,
\* the values its closure captured when it was called, and (history) whether
\* an image was selected since it was called.
Task(kind, phase, file, analysis, src) ==
  [kind |-> kind, phase |-> phase, file |-> file, analysis |-> analysis,
   src |-> src, abandoned |-> FALSE]

\* The history record of an event: its kind, the task it resumed (if any),
\* what the remote operation returned (if anything; for a press of Analyze
\* or Close that was not turned down, what was held and is discarded by
\* it), and a bit that flips on every event so that two like events in a
\* row are two steps.
Event(kind, task, payload) ==
  [kind |-> kind, task |-> task, payload |-> payload,
   tick |-> 1 - lastEvent.tick]

Without(s, i) == SubSeq(s, 1, i - 1) \o SubSeq(s, i + 1, Len(s))

Replace(s, i, x) == [s EXCEPT ![i] = x]

\* No edit is being generated: the helper has not been called.
HelperIdle ==
  /\ originalWidth = 1000
  /\ originalHeight = 1000
  /\ suggested_edits = <<>>
  /\ targetAspectRatio = Null

\* Numbers that need not be whole (the scale, the slider position) are
\* fractions in lowest terms.
RECURSIVE GCD(_, _)
GCD(a, b) == IF b = 0 THEN a ELSE GCD(b, a % b)

Frac(n, d) ==
  LET g == GCD(IF n < 0 THEN 0 - n ELSE n, d)
  IN  [n |-> n \div g, d |-> d \div g]

Whole(k) == [n |-> k, d |-> 1]

Times(a, b) == Frac(a.n * b.n, a.d * b.d)
Over(a, b) == Frac(a.n * b.d, a.d * b.n)
Minus(a, b) == Frac(a.n * b.d - b.n * a.d, a.d * b.d)
Less(a, b) == a.n * b.d < b.n * a.d
MathMin(a, b) == IF Less(b, a) THEN b ELSE a
MathMax(a, b) == IF Less(a, b) THEN b ELSE a

\* ComparisonView as it is constructed: the useState and useRef defaults.
ViewerDefault ==
  /\ isResizing = FALSE
  /\ sliderPosition = Whole(50)
  /\ scale = Whole(1)
  /\ pan = [x |-> 0, y |-> 0]
  /\ isPanning = FALSE
  /\ panStartRef = Null
  /\ panDragStart = Null

\* App as it is constructed, before the API key is known.
AppInit ==
  /\ hasApiKey = FALSE
  /\ checkingKey = TRUE
  /\ envApiKey \in BOOLEAN
  /\ selectedFile = Null
  /\ previewUrl = Null
  /\ analysisResult = Null
  /\ isLoadingAnalysis = FALSE
  /\ analysisError = Null
  /\ isEditing = FALSE
  /\ editedImage = Null
  /\ editError = Null
  /\ inflight = <<>>
  /\ lastEvent = [kind |-> "init", task |-> Null, payload |-> Null, tick |-> 0]

Init == AppInit /\ HelperIdle /\ ViewerDefault


\* ------------------------------------------------------- what is rendered

\* App renders the workflow only after the key check, with a key present.
UIShown == ~checkingKey /\ hasApiKey

\* Variants of the button's gating that forget one of its conditions.
AnalyzeButtonEnabled_IgnoresLoading == ~ (selectedFile = Null \/ isEditing)

AnalyzeButtonEnabled_IgnoresFile == ~ (isLoadingAnalysis \/ isEditing)

AnalyzeButtonEnabled_IgnoresEditing ==
  ~ (selectedFile = Null \/ isLoadingAnalysis)

\* disabled={!selectedFile || isLoadingAnalysis || isEditing}
AnalyzeButtonEnabled ==
  ~ (selectedFile = Null \/ isLoadingAnalysis \/ isEditing)

\* {!isLoadingAnalysis && !analysisError && analysisResult && ( ... )}
ResultsShown ==
  ~isLoadingAnalysis /\ analysisError = Null /\ analysisResult # Null

\* A variant that keeps the button while an edited image is held.
EditButtonShown_IgnoresEdited == ResultsShown /\ ~isEditing

\* {!isEditing && !editedImage && (<button onClick={handleEditClick}>)}
EditButtonShown == ResultsShown /\ ~isEditing /\ editedImage = Null

\* {editedImage && ( ... Rate This Edit / Download / Close ... )}
EditedPanelShown == ResultsShown /\ editedImage # Null

\* ------------------------------------------------- the aspect-ratio helper

\* Text is a sequence of characters.
UpperCase ==
  <<"A", "B", "C", "D", "E", "F", "G", "H", "I", "J", "K", "L", "M",
    "N", "O", "P", "Q", "R", "S", "T", "U", "V", "W", "X", "Y", "Z">>
LowerCase ==
  <<"a", "b", "c", "d", "e", "f", "g", "h", "i", "j", "k", "l", "m",
    "n", "o", "p", "q", "r", "s", "t", "u", "v", "w", "x", "y", "z">>

\* String.prototype.toLowerCase
toLowerCase(text) ==
  [i \in 1..Len(text) |->
     IF \E k \in 1..Len(UpperCase) : UpperCase[k] = text[i]
       THEN LowerCase[CHOOSE k \in 1..Len(UpperCase) : UpperCase[k] = text[i]]
       ELSE text[i]]

\* Array.prototype.join(' ')
RECURSIVE join(_)
join(texts) ==
  IF Len(texts) = 0 THEN <<>>
  ELSE IF Len(texts) = 1 THEN texts[1]
  ELSE texts[1] \o <<" ">> \o join(Tail(texts))

\* String.prototype.includes
includes(text, part) ==
  \E i \in 0..(Len(text) - Len(part)) :
    SubSeq(text, i + 1, i + Len(part)) = part

\* edits.map(e => e.edit.toLowerCase()).join(' ')
combinedEdits(edits) ==
  join([i \in 1..Len(edits) |-> toLowerCase(edits[i].edit)])

\* The texts the helper looks for.
Txt16x9 == <<"1", "6", ":", "9">>
Txt9x16 == <<"9", ":", "1", "6">>
Txt4x3 == <<"4", ":", "3">>
Txt3x4 == <<"3", ":", "4">>
Txt1x1 == <<"1", ":", "1">>
TxtSquare == <<"s", "q", "u", "a", "r", "e">>

\* The supported ratios, in the order of the source, each value in
\* ten-thousandths (1, 0.75, 1.3333, 0.5625, 1.7778).
supported ==
  << [s |-> "1:1", v |-> 10000],
     [s |-> "3:4", v |-> 7500],
     [s |-> "4:3", v |-> 13333],
     [s |-> "9:16", v |-> 5625],
     [s |-> "16:9", v |-> 17778] >>

Abs(x) == IF x < 0 THEN 0 - x ELSE x

\* h * Math.abs(entry.v - w / h), in ten-thousandths: for h > 0 two entries
\* compare by it as they compare by Math.abs(entry.v - ratio).
Distance(entry, w, h) == Abs(entry.v * h - 10000 * w)

\* A variant of the comparison that also prefers the later entry on a tie.
Closer_OrEqual(curr, prev, w, h) ==
  Distance(curr, w, h) <= Distance(prev, w, h)

\* Math.abs(curr.v - ratio) < Math.abs(prev.v - ratio)
Closer(curr, prev, w, h) == Distance(curr, w, h) < Distance(prev, w, h)

\* supported.reduce((prev, curr) => ... ? curr : prev), from entry i on with
\* the accumulator prev; reduce without an initial value starts with the
\* first entry as accumulator and the second as curr.
RECURSIVE reduce(_, _, _, _)
reduce(i, prev, w, h) ==
  IF i > Len(supported) THEN prev
  ELSE reduce(i + 1,
              IF Closer(supported[i], prev, w, h) THEN supported[i] ELSE prev,
              w, h)

\* A variant that looks for 9:16 before 16:9.
getBestAspectRatio_PortraitFirst(w, h, edits) ==
  LET combined == combinedEdits(edits)
  IN  IF includes(combined, Txt9x16) THEN "9:16"
      ELSE IF includes(combined, Txt16x9) THEN "16:9"
      ELSE IF includes(combined, Txt4x3) THEN "4:3"
      ELSE IF includes(combined, Txt3x4) THEN "3:4"
      ELSE IF includes(combined, Txt1x1) \/ includes(combined, TxtSquare)
        THEN "1:1"
      ELSE reduce(2, supported[1], w, h).s

getBestAspectRatio(w, h, edits) ==
  LET combined == combinedEdits(edits)
  IN  IF includes(combined, Txt16x9) THEN "16:9"
      ELSE IF includes(combined, Txt9x16) THEN "9:16"
      ELSE IF includes(combined, Txt4x3) THEN "4:3"
      ELSE IF includes(combined, Txt3x4) THEN "3:4"
      ELSE IF includes(combined, Txt1x1) \/ includes(combined, TxtSquare)
        THEN "1:1"
      ELSE reduce(2, supported[1], w, h).s

\* ---------------------------------------------------------------- handlers

Abandon(tasks) ==
  [i \in 1..Len(tasks) |-> [tasks[i] EXCEPT !.abandoned = TRUE]]

\* handleImageSelect(file): file is a File or null.
handleImageSelect(file) ==
  /\ analysisResult' = Null
  /\ analysisError' = Null
  /\ editedImage' = Null
  /\ editError' = Null
  /\ IF file # Null
       THEN /\ selectedFile' = file
            /\ previewUrl' = Some(createObjectURL(Val(file)))
       ELSE /\ selectedFile' = Null
            /\ previewUrl' = Null
  /\ UNCHANGED <<isLoadingAnalysis, isEditing>>

\* The user picks a file (or cancels the picker) in ImageUpload.
ImageSelect(file) ==
  /\ UIShown
  /\ handleImageSelect(file)
  /\ inflight' = Abandon(inflight)
  /\ lastEvent' = Event("select", Null, file)
  /\ UNCHANGED keyVars

\* A variant that leaves the held analysis in place while the new request
\* runs.
handleAnalyzeClick_KeepsResult ==
  IF selectedFile = Null
    THEN /\ analysisError' = Some(MsgSelectFirst)
         /\ UNCHANGED <<selectedFile, previewUrl, analysisResult,
                        isLoadingAnalysis, isEditing, editedImage, editError,
                        inflight>>
    ELSE /\ Len(inflight) < MaxInflight
         /\ isLoadingAnalysis' = TRUE
         /\ analysisError' = Null
         /\ editedImage' = Null
         /\ inflight' =
              Append(inflight, Task("analyze", "read", selectedFile, Null, Null))
         /\ UNCHANGED <<selectedFile, previewUrl, analysisResult, isEditing,
                        editError>>

\* A variant that leaves the held edited image in place.
handleAnalyzeClick_KeepsEdited ==
  IF selectedFile = Null
    THEN /\ analysisError' = Some(MsgSelectFirst)
         /\ UNCHANGED <<selectedFile, previewUrl, analysisResult,
                        isLoadingAnalysis, isEditing, editedImage, editError,
                        inflight>>
    ELSE /\ Len(inflight) < MaxInflight
         /\ isLoadingAnalysis' = TRUE
         /\ analysisError' = Null
         /\ analysisResult' = Null
         /\ inflight' =
              Append(inflight, Task("analyze", "read", selectedFile, Null, Null))
         /\ UNCHANGED <<selectedFile, previewUrl, isEditing, editedImage,
                        editError>>

\* handleAnalyzeClick, up to its first await.
handleAnalyzeClick ==
  IF selectedFile = Null
    THEN /\ analysisError' = Some(MsgSelectFirst)
         /\ UNCHANGED <<selectedFile, previewUrl, analysisResult,
                        isLoadingAnalysis, isEditing, editedImage, editError,
                        inflight>>
    ELSE /\ Len(inflight) < MaxInflight
         /\ isLoadingAnalysis' = TRUE
         /\ analysisError' = Null
         /\ analysisResult' = Null
         /\ editedImage' = Null
         /\ inflight' =
              Append(inflight, Task("analyze", "read", selectedFile, Null, Null))
         /\ UNCHANGED <<selectedFile, previewUrl, isEditing, editError>>

\* The user presses "Analyze Photo"; a disabled button does nothing.
AnalyzeClick ==
  /\ UIShown
  /\ lastEvent' =
       Event("analyzeClick", Null,
             IF AnalyzeButtonEnabled
               THEN Some([analysis |-> analysisResult, edited |-> editedImage])
               ELSE Null)
  /\ IF AnalyzeButtonEnabled
       THEN handleAnalyzeClick
       ELSE UNCHANGED <<appVars, inflight>>
  /\ UNCHANGED keyVars

\* handleEditClick, up to its first await.
handleEditClick ==
  IF selectedFile = Null \/ analysisResult = Null
    THEN UNCHANGED <<appVars, inflight>>
    ELSE /\ Len(inflight) < MaxInflight
         /\ Len(Val(selectedFile).data) <= MaxEditDepth
         /\ isEditing' = TRUE
         /\ editError' = Null
         /\ inflight' =
              Append(inflight,
                     Task("edit", "read", selectedFile, analysisResult, previewUrl))
         /\ UNCHANGED <<selectedFile, previewUrl, analysisResult,
                        isLoadingAnalysis, analysisError, editedImage>>

\* A variant whose button is rendered outside the results panel and whose
\* handler checks only that a file is selected.
EditClick_NoAnalysisCheck ==
  /\ UIShown
  /\ lastEvent' = Event("editClick", Null, Null)
  /\ IF selectedFile # Null /\ ~isEditing /\ editedImage = Null
       THEN /\ Len(inflight) < MaxInflight
            /\ Len(Val(selectedFile).data) <= MaxEditDepth
            /\ isEditing' = TRUE
            /\ editError' = Null
            /\ inflight' =
                 Append(inflight,
                        Task("edit", "read", selectedFile, analysisResult, previewUrl))
            /\ UNCHANGED <<selectedFile, previewUrl, analysisResult,
                           isLoadingAnalysis, analysisError, editedImage>>
       ELSE UNCHANGED <<appVars, inflight>>
  /\ UNCHANGED keyVars

\* The user presses "Apply These Improvements"; a button that is not
\* rendered cannot be pressed.
EditClick ==
  /\ UIShown
  /\ lastEvent' = Event("editClick", Null, Null)
  /\ IF EditButtonShown
       THEN handleEditClick
       ELSE UNCHANGED <<appVars, inflight>>
  /\ UNCHANGED keyVars

\* handleReanalyzeEdited, up to its first await.
handleReanalyzeEdited ==
  IF editedImage = Null
    THEN UNCHANGED <<appVars, inflight>>
    ELSE /\ Len(inflight) < MaxInflight
         /\ isLoadingAnalysis' = TRUE
         /\ analysisResult' = Null
         /\ analysisError' = Null
         /\ editedImage' = Null
         /\ isEditing' = FALSE
         /\ editError' = Null
         /\ inflight' =
              Append(inflight, Task("reanalyze", "fetch", Null, Null, editedImage))
         /\ UNCHANGED <<selectedFile, previewUrl>>

\* The user presses "Rate This Edit".
ReanalyzeClick ==
  /\ UIShown
  /\ lastEvent' = Event("reanalyzeClick", Null, Null)
  /\ IF EditedPanelShown
       THEN handleReanalyzeEdited
       ELSE UNCHANGED <<appVars, inflight>>
  /\ UNCHANGED keyVars

\* A variant of Close that drops the analysis together with the edited
\* image.
CloseClick_DropsAnalysis ==
  /\ UIShown
  /\ lastEvent' =
       Event("closeClick", Null, IF EditedPanelShown THEN editedImage ELSE Null)
  /\ IF EditedPanelShown
       THEN /\ editedImage' = Null
            /\ analysisResult' = Null
            /\ UNCHANGED <<selectedFile, previewUrl, isLoadingAnalysis,
                           analysisError, isEditing, editError, inflight>>
       ELSE UNCHANGED <<appVars, inflight>>
  /\ UNCHANGED keyVars

\* The user presses "Close": onClick={() => setEditedImage(null)}.
CloseClick ==
  /\ UIShown
  /\ lastEvent' =
       Event("closeClick", Null, IF EditedPanelShown THEN editedImage ELSE Null)
  /\ IF EditedPanelShown
       THEN /\ editedImage' = Null
            /\ UNCHANGED <<selectedFile, previewUrl, analysisResult,
                           isLoadingAnalysis, analysisError, isEditing,
                           editError, inflight>>
       ELSE UNCHANGED <<appVars, inflight>>
  /\ UNCHANGED keyVars

\* ----------------------------------------------------- resumed handlers

\* What a catch clause receives: an Error with a message, or a value that
\* is no Error (FileReader.onerror rejects with a ProgressEvent).
JsError(msg) == [isError |-> TRUE, message |-> msg]
NonError == [isError |-> FALSE, message |-> ""]

\* A variant of the handlers without their finally clauses.
Catch_NoFinally(t, err) ==
  CASE t.kind = "analyze" ->
         /\ analysisError' =
              Some(IF err.isError THEN err.message ELSE MsgAnalysisUnknown)
         /\ UNCHANGED <<selectedFile, previewUrl, analysisResult, isEditing,
                        editedImage, editError, isLoadingAnalysis>>
    [] t.kind = "edit" ->
         /\ editError' =
              Some(IF err.isError THEN err.message ELSE MsgEditUnknown)
         /\ UNCHANGED <<selectedFile, previewUrl, analysisResult,
                        isLoadingAnalysis, analysisError, editedImage,
                        isEditing>>
    [] t.kind = "reanalyze" ->
         /\ analysisError' = Some(MsgReanalyze)
         /\ UNCHANGED <<selectedFile, previewUrl, analysisResult, isEditing,
                        editedImage, editError, isLoadingAnalysis>>

\* The catch and finally clauses of the three async handlers.
\* handleAnalyzeClick: err instanceof Error ? err.message : "An unknown ..."
\* handleEditClick:    err instanceof Error ? err.message : "Failed to ..."
\* handleReanalyzeEdited: always "Failed to re-analyze the improved image."
Catch(t, err) ==
  CASE t.kind = "analyze" ->
         /\ analysisError' =
              Some(IF err.isError THEN err.message ELSE MsgAnalysisUnknown)
         /\ isLoadingAnalysis' = FALSE
         /\ UNCHANGED <<selectedFile, previewUrl, analysisResult, isEditing,
                        editedImage, editError>>
    [] t.kind = "edit" ->
         /\ editError' =
              Some(IF err.isError THEN err.message ELSE MsgEditUnknown)
         /\ isEditing' = FALSE
         /\ UNCHANGED <<selectedFile, previewUrl, analysisResult,
                        isLoadingAnalysis, analysisError, editedImage>>
    [] t.kind = "reanalyze" ->
         /\ analysisError' = Some(MsgReanalyze)
         /\ isLoadingAnalysis' = FALSE
         /\ UNCHANGED <<selectedFile, previewUrl, analysisResult, isEditing,
                        editedImage, editError>>

FailureEvent(t) ==
  IF t.kind = "edit" THEN "editFailure" ELSE "analysisFailure"

\* The handler suspended as task i ends in its catch clause with err; the
\* history keeps the remote answer, if there was one.
ThrowAfter(i, err, answer) ==
  /\ Catch(inflight[i], err)
  /\ inflight' = Without(inflight, i)
  /\ lastEvent' = Event(FailureEvent(inflight[i]), Some(inflight[i]), answer)
  /\ UNCHANGED keyVars

Throw(i, err) == ThrowAfter(i, err, Null)

\* A variant of analyzeImage's catch clause that throws the error it caught.
analyzeImageCatch_Rethrows(error) == error

\* The catch clause of analyzeImage: the error is logged and a new Error
\* with a fixed message is thrown in its place.
analyzeImageCatch(error) == JsError(MsgGeminiAnalysis)

\* handleReanalyzeEdited: fetch(newImageSrc) and res.blob() succeed; the
\* handler makes the File and replaces the held source image.
FetchDone(i) ==
  /\ inflight[i].phase = "fetch"
  /\ LET t == inflight[i]
         file == FileFromDataUrl(Val(t.src))
     IN  /\ selectedFile' = Some(file)
         /\ previewUrl' = t.src
         /\ inflight' =
              Replace(inflight, i, [t EXCEPT !.phase = "read", !.file = Some(file)])
         /\ lastEvent' = Event("fetchDone", Some(t), Null)
  /\ UNCHANGED <<analysisResult, isLoadingAnalysis, analysisError, isEditing,
                 editedImage, editError, keyVars>>

\* handleReanalyzeEdited: fetch or blob() rejects.
FetchFailed(i) ==
  /\ inflight[i].phase = "fetch"
  /\ Throw(i, JsError("fetch failed"))

\* handleEditClick reads the picture's size from an Image whose src is the
\* preview URL: onload gives img.width and img.height, onerror 1000 x 1000.
LoadDimensions(t, loaded) ==
  IF loaded THEN ImageSize(Val(t.src).data)
  ELSE [width |-> 1000, height |-> 1000]

\* What analyzeImage sends: the picture and its MIME type.
analyzeImage(base64ImageData, mimeType) ==
  [operation |-> "analyze", data |-> base64ImageData, mimeType |-> mimeType]

\* A variant that always asks for a square picture.
generateImprovedImage_Square(base64ImageData, mimeType, analysis, w, h) ==
  [operation |-> "edit", data |-> base64ImageData, mimeType |-> mimeType,
   analysis |-> analysis, aspectRatio |-> "1:1"]

\* What generateImprovedImage sends: the picture, its MIME type, the
\* analysis (in the prompt) and the aspect ratio of getBestAspectRatio.
generateImprovedImage(base64ImageData, mimeType, analysis, w, h) ==
  [operation |-> "edit", data |-> base64ImageData, mimeType |-> mimeType,
   analysis |-> analysis,
   aspectRatio |-> getBestAspectRatio(w, h, analysis.suggested_edits.v)]

\* fileToBase64 resolves (for an edit, the image's dimensions load as well)
\* and the handler calls the remote operation, which throws at once when
\* process.env.API_KEY is not set and sends its request otherwise.
ReadDone(i) ==
  /\ inflight[i].phase = "read"
  /\ IF ~envApiKey
       THEN Throw(i, JsError(MsgNoApiKey))
       ELSE /\ inflight' =
                 Replace(inflight, i, [inflight[i] EXCEPT !.phase = "remote"])
            /\ \E loaded \in BOOLEAN :
                 lastEvent' =
                   Event("requestSent", Some(inflight[i]),
                         Some(IF inflight[i].kind = "edit"
                                THEN LET dimensions ==
                                           LoadDimensions(inflight[i], loaded)
                                     IN  generateImprovedImage(
                                           Val(inflight[i].file).data,
                                           Val(inflight[i].file).type,
                                           Val(inflight[i].analysis),
                                           dimensions.width, dimensions.height)
                                ELSE analyzeImage(Val(inflight[i].file).data,
                                                  Val(inflight[i].file).type)))
            /\ UNCHANGED <<appVars, keyVars>>

\* fileToBase64 rejects: reader.onerror.
ReadFailed(i) ==
  /\ inflight[i].phase = "read"
  /\ Throw(i, NonError)

\* analyzeImage: the remote answers with JSON; the response is validated and
\* returned, or the validation error is caught and thrown again.
AnalysisReturns(i, parsedJson) ==
  /\ inflight[i].phase = "remote"
  /\ inflight[i].kind \in {"analyze", "reanalyze"}
  /\ IF ValidAnalysis(parsedJson)
       THEN /\ analysisResult' = Some(parsedJson)
            /\ isLoadingAnalysis' = FALSE
            /\ inflight' = Without(inflight, i)
            /\ lastEvent' =
                 Event("analysisSuccess", Some(inflight[i]), Some(parsedJson))
            /\ UNCHANGED <<selectedFile, previewUrl, analysisError, isEditing,
                           editedImage, editError, keyVars>>
       ELSE ThrowAfter(i, analyzeImageCatch(JsError(MsgStructure)),
                       Some(parsedJson))

\* analyzeImage: generateContent rejects, or its text is no JSON.
AnalysisFails(i) ==
  /\ inflight[i].phase = "remote"
  /\ inflight[i].kind \in {"analyze", "reanalyze"}
  /\ Throw(i, JsError(MsgGeminiAnalysis))

\* generateImprovedImage: the remote answers; the first part with inline
\* data is the edited image, and an answer without one is an error.
EditReturns(i, hasImage) ==
  /\ inflight[i].phase = "remote"
  /\ inflight[i].kind = "edit"
  /\ IF hasImage
       THEN LET img == Edited(Val(inflight[i].file).data)
            IN  /\ editedImage' = Some(DataUrl(img))
                /\ isEditing' = FALSE
                /\ inflight' = Without(inflight, i)
                /\ lastEvent' =
                     Event("editSuccess", Some(inflight[i]), Some(DataUrl(img)))
                /\ UNCHANGED <<selectedFile, previewUrl, analysisResult,
                               isLoadingAnalysis, analysisError, editError,
                               keyVars>>
       ELSE Throw(i, JsError(MsgGeminiEdit))

\* generateImprovedImage: generateContent rejects.
EditFails(i) ==
  /\ inflight[i].phase = "remote"
  /\ inflight[i].kind = "edit"
  /\ Throw(i, JsError(MsgGeminiEdit))

\* ---------------------------------------------------------------- API key

\* The effect started at mount: checkKey() ends.  hasKey is what
\* window.aistudio.hasSelectedApiKey() answers (TRUE outside AI Studio); when
\* it throws, hasApiKey keeps its value.
CheckKeyDone ==
  /\ checkingKey
  /\ \E hasKey \in BOOLEAN : hasApiKey' \in {hasKey, hasApiKey}
  /\ checkingKey' = FALSE
  /\ lastEvent' = Event("checkKey", Null, Null)
  /\ UNCHANGED <<envApiKey, appVars, inflight>>

\* handleSelectKey: openSelectKey() resolves.
SelectKey ==
  /\ ~checkingKey /\ ~hasApiKey
  /\ hasApiKey' = TRUE
  /\ lastEvent' = Event("selectKey", Null, Null)
  /\ UNCHANGED <<checkingKey, envApiKey, appVars, inflight>>

\* ----------------------------------------- the aspect-ratio helper, alone

\* The widths and heights of the images handed to the helper: the small
\* ones, the two sides of a 21 x 32 picture, and common photo sizes.
Widths == (1..MaxDim) \cup {21, 1000, 1920}
Heights == (1..MaxDim) \cup {32, 1000, 1080}

\* The edit instructions an analysis may carry: one without a ratio and one
\* for each text the helper looks for ("Square" capitalised).
EditTexts ==
  { <<"c", "r", "o", "p">>,
    Txt16x9, Txt9x16, Txt4x3, Txt3x4, Txt1x1,
    <<"S", "q", "u", "a", "r", "e">> }

RECURSIVE SeqsUpTo(_, _)
SeqsUpTo(S, n) ==
  IF n = 0 THEN { <<>> }
  ELSE LET shorter == SeqsUpTo(S, n - 1)
       IN  shorter \cup { Append(q, x) : q \in shorter, x \in S }

EditLists ==
  SeqsUpTo({ [edit |-> t, reason |-> "because"] : t \in EditTexts }, MaxEdits)

\* generateImprovedImage is entered with an image's size and an analysis
\* (App is left as constructed, the API key being set).
HelperInit ==
  /\ AppInit
  /\ envApiKey = TRUE
  /\ ViewerDefault
  /\ originalWidth \in Widths
  /\ originalHeight \in Heights
  /\ suggested_edits \in EditLists
  /\ targetAspectRatio = Null

\* const targetAspectRatio = getBestAspectRatio(originalWidth,
\*   originalHeight, analysis.suggested_edits)
ComputeAspectRatio ==
  /\ targetAspectRatio = Null
  /\ targetAspectRatio' =
       Some(getBestAspectRatio(originalWidth, originalHeight, suggested_edits))
  /\ UNCHANGED <<originalWidth, originalHeight, suggested_edits>>

\* -------------------------------------------------- the comparison viewer

\* containerRef.current.getBoundingClientRect(): where the container lies in
\* the window.
rect == [left |-> 1, width |-> 4]

\* Where the pointer of a mouse or touch event can be: left of the container,
\* on its left edge, a quarter in, on its right edge, right of it; and two
\* heights.
ClientXs == {0, 1, 2, 5, 6}
ClientYs == {0, 1}

\* The history record of a mouse or touch event on the viewer: its kind and
\* where the pointer was or, for a zoom button, the scale it was pressed at
\* (null for Reset and for the end of a drag).
ViewerEvent(kind, detail) ==
  [kind |-> kind, task |-> Null, payload |-> detail, tick |-> 0]

\* A variant that does not clamp the position.
updateSliderPosition_NoClamp(clientX) ==
  sliderPosition' = Times(Frac(clientX - rect.left, rect.width), Whole(100))

\* updateSliderPosition(clientX)
updateSliderPosition(clientX) ==
  LET newPos == Times(Frac(clientX - rect.left, rect.width), Whole(100))
  IN  sliderPosition' = MathMax(Whole(0), MathMin(Whole(100), newPos))

\* startResizing(e)
startResizing(clientX) ==
  /\ isResizing' = TRUE
  /\ updateSliderPosition(clientX)

\* startPanning(e)
startPanning(clientX, clientY) ==
  /\ isPanning' = TRUE
  /\ panStartRef' = Some([x |-> clientX - pan.x, y |-> clientY - pan.y])

\* A variant that pans from scale 1 on.
handleContainerMouseDown_PansAtOne(clientX, clientY) ==
  IF ~Less(scale, Whole(1))
    THEN /\ startPanning(clientX, clientY)
         /\ UNCHANGED <<isResizing, sliderPosition, scale, pan>>
    ELSE /\ startResizing(clientX)
         /\ UNCHANGED <<scale, pan, isPanning, panStartRef>>

\* handleContainerMouseDown(e)
handleContainerMouseDown(clientX, clientY) ==
  IF Less(Whole(1), scale)
    THEN /\ startPanning(clientX, clientY)
         /\ UNCHANGED <<isResizing, sliderPosition, scale, pan>>
    ELSE /\ startResizing(clientX)
         /\ UNCHANGED <<scale, pan, isPanning, panStartRef>>

\* A mouse button or a finger goes down on the container.
ContainerDown(clientX, clientY) ==
  /\ handleContainerMouseDown(clientX, clientY)
  /\ lastEvent' =
       ViewerEvent("containerDown", Some([x |-> clientX, y |-> clientY]))

\* A mouse button or a finger goes down on the slider handle, which stops
\* the event and starts the slider drag.
HandleDown(clientX, clientY) ==
  /\ startResizing(clientX)
  /\ UNCHANGED <<scale, pan, isPanning, panStartRef>>
  /\ lastEvent' =
       ViewerEvent("handleDown", Some([x |-> clientX, y |-> clientY]))

\* handleMove(e), the window's mousemove and touchmove listener, which is
\* attached while isResizing or isPanning.
handleMove(clientX, clientY) ==
  IF isResizing
    THEN /\ updateSliderPosition(clientX)
         /\ UNCHANGED <<isResizing, scale, pan, isPanning, panStartRef>>
    ELSE IF isPanning /\ panStartRef # Null
      THEN LET newX == clientX - Val(panStartRef).x
               newY == clientY - Val(panStartRef).y
           IN  /\ newX \in (0 - MaxPan)..MaxPan
               /\ newY \in (0 - MaxPan)..MaxPan
               /\ pan' = [x |-> newX, y |-> newY]
               /\ UNCHANGED <<isResizing, sliderPosition, scale, isPanning,
                              panStartRef>>
      ELSE UNCHANGED viewerVars

\* The pointer moves.
PointerMove(clientX, clientY) ==
  /\ IF isResizing \/ isPanning
       THEN handleMove(clientX, clientY)
       ELSE UNCHANGED viewerVars
  /\ lastEvent' =
       ViewerEvent("pointerMove", Some([x |-> clientX, y |-> clientY]))

\* handleUp(), the window's mouseup and touchend listener: stopResizing()
\* and stopPanning().
handleUp ==
  /\ isResizing' = FALSE
  /\ IF isPanning
       THEN isPanning' = FALSE /\ panStartRef' = Null
       ELSE UNCHANGED <<isPanning, panStartRef>>
  /\ UNCHANGED <<sliderPosition, scale, pan>>

\* The mouse button or the finger goes up.
PointerUp ==
  /\ IF isResizing \/ isPanning
       THEN handleUp
       ELSE UNCHANGED viewerVars
  /\ lastEvent' = ViewerEvent("pointerUp", Null)

\* The buttons of the zoom controls as they are rendered.
ZoomInEnabled == Less(scale, Whole(8))
ZoomOutEnabled == Less(Whole(1), scale)

\* A variant without the upper limit.
handleZoomIn_NoLimit ==
  /\ scale' = Times(scale, Frac(3, 2))
  /\ UNCHANGED <<isResizing, sliderPosition, pan, isPanning, panStartRef>>

\* handleZoomIn: setScale(s => Math.min(s * 1.5, 8))
handleZoomIn ==
  /\ scale' = MathMin(Times(scale, Frac(3, 2)), Whole(8))
  /\ UNCHANGED <<isResizing, sliderPosition, pan, isPanning, panStartRef>>

ZoomInClick ==
  /\ IF ZoomInEnabled THEN handleZoomIn ELSE UNCHANGED viewerVars
  /\ lastEvent' = ViewerEvent("zoomIn", Some(scale))

\* A variant that falls back to 1 only below 1.
handleZoomOut_SnapsBelowOne ==
  LET newScale == Over(scale, Frac(3, 2))
  IN  /\ IF Less(newScale, Whole(1))
           THEN pan' = [x |-> 0, y |-> 0] /\ scale' = Whole(1)
           ELSE scale' = newScale /\ UNCHANGED pan
      /\ UNCHANGED <<isResizing, sliderPosition, isPanning, panStartRef>>

\* handleZoomOut
handleZoomOut ==
  LET newScale == Over(scale, Frac(3, 2))
  IN  /\ IF Less(newScale, Frac(11, 10))
           THEN pan' = [x |-> 0, y |-> 0] /\ scale' = Whole(1)
           ELSE scale' = newScale /\ UNCHANGED pan
      /\ UNCHANGED <<isResizing, sliderPosition, isPanning, panStartRef>>

ZoomOutClick ==
  /\ IF ZoomOutEnabled THEN handleZoomOut ELSE UNCHANGED viewerVars
  /\ lastEvent' = ViewerEvent("zoomOut", Some(scale))

\* A variant that leaves the slider where it is.
handleReset_KeepsSlider ==
  /\ scale' = Whole(1)
  /\ pan' = [x |-> 0, y |-> 0]
  /\ UNCHANGED <<sliderPosition, isResizing, isPanning, panStartRef>>

\* handleReset
handleReset ==
  /\ scale' = Whole(1)
  /\ pan' = [x |-> 0, y |-> 0]
  /\ sliderPosition' = Whole(50)
  /\ UNCHANGED <<isResizing, isPanning, panStartRef>>

ResetClick ==
  /\ handleReset
  /\ lastEvent' = ViewerEvent("reset", Null)

\* What is rendered.  Layer 1, the edited image:
\* transform: translate(pan.x px, pan.y px) scale(scale).
AfterLayerTransform == [translate |-> pan, scale |-> scale]

\* A variant whose original layer is moved but not scaled.
BeforeLayerTransform_Unscaled == [translate |-> pan, scale |-> Whole(1)]

\* Layer 2, the original image, inside its clip wrapper:
\* transform: translate(pan.x px, pan.y px) scale(scale).
BeforeLayerTransform == [translate |-> pan, scale |-> scale]

\* The clip wrapper of layer 2: clipPath: inset(0 (100 - sliderPosition)% 0 0),
\* which cuts the layer off on its right.
BeforeClipPath ==
  [top |-> Whole(0), right |-> Minus(Whole(100), sliderPosition),
   bottom |-> Whole(0), left |-> Whole(0)]

\* App shows an edited image next to its source (EditReady), which is when
\* it renders ComparisonView; the viewer is as constructed.
ViewerInit ==
  /\ hasApiKey = TRUE
  /\ checkingKey = FALSE
  /\ envApiKey = TRUE
  /\ \E f \in Files :
       /\ f.name = "a.jpg"
       /\ selectedFile = Some(f)
       /\ previewUrl = Some(createObjectURL(f))
       /\ editedImage = Some(DataUrl(Edited(f.data)))
  /\ analysisResult = Some(Json(JNum(6), ThreeEdits))
  /\ isLoadingAnalysis = FALSE
  /\ analysisError = Null
  /\ isEditing = FALSE
  /\ editError = Null
  /\ inflight = <<>>
  /\ lastEvent = [kind |-> "mount", task |-> Null, payload |-> Null, tick |-> 0]
  /\ HelperIdle
  /\ ViewerDefault

\* ----------------------------------------------------------- specification

Next ==
  \/ CheckKeyDone /\ UNCHANGED partVars
  \/ SelectKey /\ UNCHANGED partVars
  \/ (\E f \in Files : ImageSelect(Some(f))) /\ UNCHANGED partVars
  \/ ImageSelect(Null) /\ UNCHANGED partVars
  \/ AnalyzeClick /\ UNCHANGED partVars
  \/ EditClick /\ UNCHANGED partVars
  \/ ReanalyzeClick /\ UNCHANGED partVars
  \/ CloseClick /\ UNCHANGED partVars
  \/ (\E i \in 1..Len(inflight) : FetchDone(i)) /\ UNCHANGED partVars
  \/ (\E i \in 1..Len(inflight) : FetchFailed(i)) /\ UNCHANGED partVars
  \/ (\E i \in 1..Len(inflight) : ReadDone(i)) /\ UNCHANGED partVars
  \/ (\E i \in 1..Len(inflight) : ReadFailed(i)) /\ UNCHANGED partVars
  \/ (\E i \in 1..Len(inflight), r \in Responses : AnalysisReturns(i, r))
       /\ UNCHANGED partVars
  \/ (\E i \in 1..Len(inflight) : AnalysisFails(i)) /\ UNCHANGED partVars
  \/ (\E i \in 1..Len(inflight), hasImage \in BOOLEAN : EditReturns(i, hasImage))
       /\ UNCHANGED partVars
  \/ (\E i \in 1..Len(inflight) : EditFails(i)) /\ UNCHANGED partVars

Spec == Init /\ [][Next]_vars

\* A suspended handler goes on: the promise it awaits settles and its
\* continuation runs.
Continue ==
  \E i \in 1..Len(inflight) :
    \/ FetchDone(i) /\ UNCHANGED partVars
    \/ FetchFailed(i) /\ UNCHANGED partVars
    \/ ReadFailed(i) /\ UNCHANGED partVars
    \/ (\E r \in Responses : AnalysisReturns(i, r)) /\ UNCHANGED partVars
    \/ AnalysisFails(i) /\ UNCHANGED partVars
    \/ (\E hasImage \in BOOLEAN : EditReturns(i, hasImage))
         /\ UNCHANGED partVars
    \/ EditFails(i) /\ UNCHANGED partVars
    \/ ReadDone(i) /\ UNCHANGED partVars

\* App's workflow when every promise a handler awaits settles in the end
\* (the file is read or not, the remote call returns or fails) and the
\* event loop then runs the handler's continuation.
LiveSpec == Init /\ [][Next]_vars /\ WF_vars(Continue)

\* The aspect-ratio helper alone, called once for each image size and
\* analysis, while App rests as constructed.
HelperNext ==
  /\ ComputeAspectRatio
  /\ UNCHANGED <<keyVars, appVars, inflight, lastEvent, viewerVars,
               panDragStart>>

HelperSpec == HelperInit /\ [][HelperNext]_vars

\* The mounted viewer alone, under the user's mouse and touch events, while
\* App rests in EditReady.
AppRests == UNCHANGED <<keyVars, appVars, inflight, helperVars, panDragStart>>

ViewerNext ==
  \/ ZoomInClick /\ AppRests
  \/ ZoomOutClick /\ AppRests
  \/ ResetClick /\ AppRests
  \/ (\E x \in ClientXs, y \in ClientYs : ContainerDown(x, y)) /\ AppRests
  \/ (\E x \in ClientXs, y \in ClientYs : HandleDown(x, y)) /\ AppRests
  \/ (\E x \in ClientXs, y \in ClientYs : PointerMove(x, y)) /\ AppRests
  \/ PointerUp /\ AppRests

ViewerSpec == ViewerInit /\ [][ViewerNext]_vars

\* App renders ComparisonView inside the results panel while an edited
\* image and a preview URL are held.
ViewerMounted == UIShown /\ EditedPanelShown /\ previewUrl # Null

\* A variant in which the state of an unmounted viewer is kept for the next
\* one.
ViewerFollows_KeepsState == UNCHANGED <<viewerVars, panDragStart>>

\* What a render of App does to the viewer: an instance that is rendered
\* before and after keeps its state whatever its props are (App gives it no
\* key); one that is no longer rendered is unmounted and its state is gone,
\* and the next one is constructed with the initial values of its useState
\* and useRef calls.
ViewerFollows ==
  IF ViewerMounted /\ ViewerMounted'
    THEN UNCHANGED <<viewerVars, panDragStart>>
    ELSE /\ isResizing' = FALSE
         /\ sliderPosition' = Whole(50)
         /\ scale' = Whole(1)
         /\ pan' = [x |-> 0, y |-> 0]
         /\ isPanning' = FALSE
         /\ panStartRef' = Null
         /\ panDragStart' = Null

\* The pointer positions of the gestures made while App goes on: on the
\* container's left edge and a quarter in.
PairXs == {1, 2}
PairY == 0

\* A gesture on the mounted viewer; App is not rendered again.
OnViewer == ViewerMounted /\ AppRests

\* App's workflow together with the viewer it mounts.
PairNext ==
  \/ CheckKeyDone /\ ViewerFollows /\ UNCHANGED helperVars
  \/ SelectKey /\ ViewerFollows /\ UNCHANGED helperVars
  \/ (\E f \in Files : ImageSelect(Some(f))) /\ ViewerFollows
       /\ UNCHANGED helperVars
  \/ ImageSelect(Null) /\ ViewerFollows /\ UNCHANGED helperVars
  \/ AnalyzeClick /\ ViewerFollows /\ UNCHANGED helperVars
  \/ EditClick /\ ViewerFollows /\ UNCHANGED helperVars
  \/ ReanalyzeClick /\ ViewerFollows /\ UNCHANGED helperVars
  \/ CloseClick /\ ViewerFollows /\ UNCHANGED helperVars
  \/ (\E i \in 1..Len(inflight) : FetchDone(i)) /\ ViewerFollows
       /\ UNCHANGED helperVars
  \/ (\E i \in 1..Len(inflight) : FetchFailed(i)) /\ ViewerFollows
       /\ UNCHANGED helperVars
  \/ (\E i \in 1..Len(inflight) : ReadDone(i)) /\ ViewerFollows
       /\ UNCHANGED helperVars
  \/ (\E i \in 1..Len(inflight) : ReadFailed(i)) /\ ViewerFollows
       /\ UNCHANGED helperVars
  \/ (\E i \in 1..Len(inflight), r \in Responses : AnalysisReturns(i, r))
       /\ ViewerFollows /\ UNCHANGED helperVars
  \/ (\E i \in 1..Len(inflight) : AnalysisFails(i)) /\ ViewerFollows
       /\ UNCHANGED helperVars
  \/ (\E i \in 1..Len(inflight), hasImage \in BOOLEAN : EditReturns(i, hasImage))
       /\ ViewerFollows /\ UNCHANGED helperVars
  \/ (\E i \in 1..Len(inflight) : EditFails(i)) /\ ViewerFollows
       /\ UNCHANGED helperVars
  \/ ZoomInClick /\ OnViewer
  \/ ZoomOutClick /\ OnViewer
  \/ ResetClick /\ OnViewer
  \/ (\E x \in PairXs : ContainerDown(x, PairY)) /\ OnViewer
  \/ (\E x \in PairXs : HandleDown(x, PairY)) /\ OnViewer
  \/ (\E x \in PairXs : PointerMove(x, PairY)) /\ OnViewer
  \/ PointerUp /\ OnViewer

PairSpec == Init /\ [][PairNext]_vars

\* The pointer positions of the pan drags that are followed from their
\* start: on the container's left edge and a quarter in, at two heights.
PanXs == {1, 2}
PanYs == {0, 1}

\* The history of the pan drag: written when startPanning runs, dropped
\* when the drag ends.
DragStartRecorded(clientX, clientY) ==
  panDragStart' =
    IF Less(Whole(1), scale)
      THEN Some([pan |-> pan, pointer |-> [x |-> clientX, y |-> clientY]])
      ELSE panDragStart

DragStartDropped ==
  panDragStart' = IF isPanning' THEN panDragStart ELSE Null

AppRestsInEditReady == UNCHANGED <<keyVars, appVars, inflight, helperVars>>

\* The viewer alone, with the history of its pan drags.
PanNext ==
  \/ ZoomInClick /\ UNCHANGED panDragStart /\ AppRestsInEditReady
  \/ ZoomOutClick /\ UNCHANGED panDragStart /\ AppRestsInEditReady
  \/ ResetClick /\ UNCHANGED panDragStart /\ AppRestsInEditReady
  \/ (\E x \in PanXs, y \in PanYs :
        ContainerDown(x, y) /\ DragStartRecorded(x, y)) /\ AppRestsInEditReady
  \/ (\E x \in PanXs, y \in PanYs : HandleDown(x, y))
       /\ UNCHANGED panDragStart /\ AppRestsInEditReady
  \/ (\E x \in PanXs, y \in PanYs : PointerMove(x, y))
       /\ UNCHANGED panDragStart /\ AppRestsInEditReady
  \/ PointerUp /\ DragStartDropped /\ AppRestsInEditReady

PanSpec == ViewerInit /\ [][PanNext]_vars

\* ------------------------------------------------------- workflow states

Kinds(tasks) == { tasks[i].kind : i \in 1..Len(tasks) }

\* The workflow state that App's fields stand for, read the way App renders
\* them: the analysis spinner first, then the analysis error, then the
\* results panel with its editing spinner, comparison and edit error.
WorkflowState ==
  CASE isLoadingAnalysis ->
         IF "reanalyze" \in Kinds(inflight)
           THEN "ReanalyzingEdited" ELSE "Analyzing"
    [] ~isLoadingAnalysis /\ analysisError # Null -> "AnalysisError"
    [] ~isLoadingAnalysis /\ analysisError = Null /\ isEditing -> "Editing"
    [] ~isLoadingAnalysis /\ analysisError = Null /\ ~isEditing
         /\ analysisResult = Null -> "Idle"
    [] ~isLoadingAnalysis /\ analysisError = Null /\ ~isEditing
         /\ analysisResult # Null /\ editedImage # Null -> "EditReady"
    [] ~isLoadingAnalysis /\ analysisError = Null /\ ~isEditing
         /\ analysisResult # Null /\ editedImage = Null
         /\ editError # Null -> "EditError"
    [] OTHER -> "Ready"

\* The last event resumed a handler that was called before the latest image
\* selection.
ResumedAbandoned ==
  lastEvent.task # Null /\ Val(lastEvent.task).abandoned

ResumedKind(k) == lastEvent.task # Null /\ Val(lastEvent.task).kind = k

Outstanding(kinds) ==
  Cardinality({ i \in 1..Len(inflight) : inflight[i].kind \in kinds })

\* The step is the user's press of the named button.
Pressed(kind) == lastEvent'.kind = kind /\ lastEvent' # lastEvent

\* The press was turned down: nothing the program holds changed and no
\* handler was suspended, so no remote request can follow from it.
NothingChanged == UNCHANGED <<appVars, inflight>>

\* ------------------------------------------------------------------ claims

\* C1: when a new image is selected while an analysis request is
\* outstanding, the outcome of that request, whenever it arrives, stores
\* neither an analysis nor an analysis error, and the controller stays Idle
\* for the new image.
C1_StaleAnalysisDiscarded ==
  ( /\ lastEvent.kind \in {"analysisSuccess", "analysisFailure"}
    /\ ResumedAbandoned
    /\ selectedFile # Null
    /\ selectedFile # Val(lastEvent.task).file )
  => /\ analysisResult = Null
     /\ analysisError = Null
     /\ WorkflowState = "Idle"

\* C2: selecting an image puts the controller in Idle at once, in every
\* workflow state: the selected image is the held source, no analysis, no
\* edited image and no error is held, and nothing is analyzing or editing.
C2_SelectResetsToIdle ==
  (lastEvent.kind = "select" /\ lastEvent.payload # Null)
  => /\ selectedFile = lastEvent.payload
     /\ analysisResult = Null
     /\ analysisError = Null
     /\ editedImage = Null
     /\ editError = Null
     /\ ~isLoadingAnalysis
     /\ ~isEditing
     /\ WorkflowState = "Idle"

\* C3: when a new image is selected while an edit request is outstanding,
\* the outcome of that edit stores no edited image (on success) and no edit
\* error (on failure).
C3_StaleEditDiscarded ==
  ( /\ lastEvent.kind \in {"editSuccess", "editFailure"}
    /\ ResumedAbandoned
    /\ selectedFile # Null
    /\ selectedFile # Val(lastEvent.task).file )
  => /\ editedImage = Null
     /\ editError = Null

\* C4: a re-analysis requested in EditReady that succeeds ends in Ready, the
\* held source image being exactly the image that was the edited one, with
\* the new analysis held and no edited image held.
C4_ReanalysisRoundTrip ==
  (lastEvent.kind = "analysisSuccess" /\ ResumedKind("reanalyze"))
  => /\ WorkflowState = "Ready"
     /\ previewUrl = Val(lastEvent.task).src
     /\ selectedFile = Some(FileFromDataUrl(Val(Val(lastEvent.task).src)))
     /\ analysisResult = lastEvent.payload
     /\ editedImage = Null

\* C5: at most one analysis request and at most one edit request is
\* outstanding in every reachable state, and pressing Analyze while the
\* controller is Analyzing or ReanalyzingEdited changes nothing and
\* suspends no further handler (nothing is sent, nothing is queued).
C5_OneRequestAtATime ==
  /\ [](Outstanding({"analyze", "reanalyze"}) <= 1 /\ Outstanding({"edit"}) <= 1)
  /\ [][ ( /\ Pressed("analyzeClick")
           /\ WorkflowState \in {"Analyzing", "ReanalyzingEdited"} )
         => NothingChanged ]_vars

\* C5 witness: Analyze was pressed while the request of the running
\* analysis was already with the remote operation.
C5_Witness ==
  /\ lastEvent.kind = "analyzeClick"
  /\ WorkflowState = "Analyzing"
  /\ Len(inflight) = 1
  /\ inflight[1].phase = "remote"

\* C6: pressing the edit button while the controller is Idle (no analysis
\* held) changes nothing and sends no edit request.
C6_EditRejectedInIdle ==
  [][ (Pressed("editClick") /\ WorkflowState = "Idle") => NothingChanged ]_vars

\* C6 witness: the edit button was pressed in Idle with an image selected.
C6_Witness ==
  /\ lastEvent.kind = "editClick"
  /\ WorkflowState = "Idle"
  /\ selectedFile # Null
  /\ inflight = <<>>

C8_EditOnlyInReady ==
  [][ (Pressed("editClick") /\ WorkflowState # "Ready") => NothingChanged ]_vars

\* C8 as amended: an edit request is accepted only in Ready or in EditError
\* (the retry of a failed edit); in Idle, Analyzing, AnalysisError, Editing,
\* EditReady and ReanalyzingEdited it changes nothing and sends nothing.
C8_EditOnlyInReadyOrEditError ==
  [][ (Pressed("editClick") /\ WorkflowState \notin {"Ready", "EditError"})
      => NothingChanged ]_vars

\* C8 witness: the edit button was pressed in EditReady.
C8_Witness ==
  /\ lastEvent.kind = "editClick"
  /\ WorkflowState = "EditReady"

\* C9: an accepted analysis request moves the controller to Analyzing with
\* no analysis and no analysis error held; its success leads to Ready
\* holding exactly the returned analysis and the image it was requested
\* for, and its failure to AnalysisError with a message and no analysis.
C9_AnalysisOutcome ==
  /\ ( /\ lastEvent.kind = "analyzeClick"
       /\ \E i \in 1..Len(inflight) :
            /\ inflight[i].kind = "analyze"
            /\ inflight[i].phase = "read"
            /\ ~inflight[i].abandoned )
     => /\ WorkflowState = "Analyzing"
        /\ analysisResult = Null
        /\ analysisError = Null
  /\ (lastEvent.kind = "analysisSuccess" /\ ResumedKind("analyze"))
     => /\ WorkflowState = "Ready"
        /\ analysisResult = lastEvent.payload
        /\ selectedFile = Val(lastEvent.task).file
  /\ (lastEvent.kind = "analysisFailure" /\ ResumedKind("analyze"))
     => /\ WorkflowState = "AnalysisError"
        /\ analysisError # Null
        /\ analysisResult = Null

\* C10: an accepted edit request resolves to EditReady on success, holding
\* the new edited image with the source image and analysis it was requested
\* for, and to EditError on failure, holding a message, no edited image and
\* the same source image and analysis.
C10_EditOutcome ==
  /\ lastEvent.kind = "editSuccess"
     => /\ WorkflowState = "EditReady"
        /\ editedImage = lastEvent.payload
        /\ selectedFile = Val(lastEvent.task).file
        /\ analysisResult = Val(lastEvent.task).analysis
  /\ lastEvent.kind = "editFailure"
     => /\ WorkflowState = "EditError"
        /\ editError # Null
        /\ editedImage = Null
        /\ selectedFile = Val(lastEvent.task).file
        /\ analysisResult = Val(lastEvent.task).analysis

\* The controller shows an error: the analysis error, or the edit error next
\* to the analysis the edit was asked for.
InErrorState == WorkflowState \in {"AnalysisError", "EditError"}

\* The step leaves the error state or changes the message it shows.
ErrorStateLeft ==
  \/ WorkflowState' # WorkflowState
  \/ analysisError' # analysisError
  \/ editError' # editError

\* C11 as stated: an error state and its message last until the user retries
\* the failed action (a press of Analyze in AnalysisError, of the edit button
\* in EditError) or uses the image picker, no step of the program leaves it,
\* and while the analysis error is held no analysis is held that could be
\* shown again.
C11_ErrorLeftByRetryOrSelect ==
  /\ [](analysisError # Null => (analysisResult = Null /\ ~ResultsShown))
  /\ [][ (InErrorState /\ ErrorStateLeft) =>
           \/ Pressed("select")
           \/ WorkflowState = "AnalysisError" /\ Pressed("analyzeClick")
           \/ WorkflowState = "EditError" /\ Pressed("editClick") ]_vars

\* C11, amended: as above, and EditError is also left by a press of Analyze,
\* which starts a new analysis of the held image.
C11_ErrorLeftByUserOnly ==
  /\ [](analysisError # Null => (analysisResult = Null /\ ~ResultsShown))
  /\ [][ (InErrorState /\ ErrorStateLeft) =>
           \/ Pressed("select")
           \/ Pressed("analyzeClick")
           \/ WorkflowState = "EditError" /\ Pressed("editClick") ]_vars

\* An analysis failed and a later press (of a button that is not rendered)
\* left the controller in AnalysisError.
C11_Witness ==
  /\ WorkflowState = "AnalysisError"
  /\ lastEvent.kind \in {"editClick", "closeClick", "reanalyzeClick"}

\* The ratios in the order in which the instructions are searched for them,
\* and the texts that stand for each.
RatioPriority == <<"16:9", "9:16", "4:3", "3:4", "1:1">>

RatioKeywords(name) ==
  CASE name = "16:9" -> {Txt16x9}
    [] name = "9:16" -> {Txt9x16}
    [] name = "4:3" -> {Txt4x3}
    [] name = "3:4" -> {Txt3x4}
    [] name = "1:1" -> {Txt1x1, TxtSquare}

\* The lower-cased instruction text contains a keyword of the ratio.
RatioNamed(edits, name) ==
  \E k \in RatioKeywords(name) : includes(combinedEdits(edits), k)

NoRatioKeyword(edits) ==
  \A i \in 1..Len(RatioPriority) : ~RatioNamed(edits, RatioPriority[i])

\* C12: for width > 0, height > 0 and instructions without a ratio keyword
\* the helper returns the table entry whose value is nearest to width/height,
\* on a tie the one that comes first in the table; so 1920 x 1080 gives 16:9
\* and 1000 x 1000 gives 1:1.
C12_NearestRatioFirstOnTie ==
  ( /\ targetAspectRatio # Null
    /\ originalWidth > 0 /\ originalHeight > 0
    /\ NoRatioKeyword(suggested_edits) )
  => /\ \E k \in 1..Len(supported) :
          /\ supported[k].s = Val(targetAspectRatio)
          /\ \A j \in 1..Len(supported) :
               LET dk == Distance(supported[k], originalWidth, originalHeight)
                   dj == Distance(supported[j], originalWidth, originalHeight)
               IN  dk <= dj /\ (dk = dj => k <= j)
     /\ (originalWidth = 1920 /\ originalHeight = 1080)
          => targetAspectRatio = Some("16:9")
     /\ (originalWidth = 1000 /\ originalHeight = 1000)
          => targetAspectRatio = Some("1:1")

\* A 7 x 8 picture is as far from 1:1 as from 3:4; the helper answered 1:1.
C12_Witness ==
  /\ targetAspectRatio = Some("1:1")
  /\ originalWidth = 7 /\ originalHeight = 8
  /\ NoRatioKeyword(suggested_edits)
  /\ Len(suggested_edits) > 0

\* C13: when the lower-cased instruction text contains a ratio keyword, the
\* helper returns the ratio of the first keyword found in the order 16:9,
\* 9:16, 4:3, 3:4, then 1:1 or "square", whatever the width and height.
C13_FirstKeywordInPriorityOrder ==
  (targetAspectRatio # Null /\ ~NoRatioKeyword(suggested_edits))
  => \E i \in 1..Len(RatioPriority) :
       /\ RatioNamed(suggested_edits, RatioPriority[i])
       /\ \A j \in 1..(i - 1) : ~RatioNamed(suggested_edits, RatioPriority[j])
       /\ targetAspectRatio = Some(RatioPriority[i])

\* The instructions name 9:16 and then 16:9 for a tall 1 x 8 picture; the
\* helper answered 16:9.
C13_Witness ==
  /\ targetAspectRatio = Some("16:9")
  /\ originalWidth = 1 /\ originalHeight = 8
  /\ Len(suggested_edits) = 2
  /\ suggested_edits[1].edit = Txt9x16
  /\ suggested_edits[2].edit = Txt16x9

\* The last event is the end of an analysis request whose remote operation
\* answered with a structure; the structure is the event's payload.
AnalysisAnswered ==
  /\ lastEvent.kind \in {"analysisSuccess", "analysisFailure"}
  /\ lastEvent.payload # Null

\* A structure without a suggested-edits sequence, with a rating that is no
\* number, or with a comment that is no text.
Malformed(answer) ==
  \/ answer.suggested_edits.t # "array"
  \/ answer.rating.t # "number"
  \/ \E field \in {"composition", "lighting", "subject", "overall_comment"} :
       answer[field].t # "string"

\* A structure with two numbers, four texts and exactly 3 edits.
WellFormedThreeEdits(answer) ==
  /\ answer.rating.t = "number"
  /\ answer.projected_rating.t = "number"
  /\ \A field \in {"composition", "lighting", "subject", "overall_comment"} :
       answer[field].t = "string"
  /\ answer.suggested_edits.t = "array"
  /\ Len(answer.suggested_edits.v) = 3

\* C14: a structure with no suggested-edits sequence, with a rating that is
\* not a number or with a composition, lighting, subject or overall comment
\* that is not text is rejected, never becomes the held analysis, and its
\* request ends in AnalysisError; a well-formed structure with exactly 3
\* edits is accepted and held.
C14_MalformedAnswerRejected ==
  /\ analysisResult # Null => ~Malformed(Val(analysisResult))
  /\ (AnalysisAnswered /\ Malformed(Val(lastEvent.payload)))
     => /\ lastEvent.kind = "analysisFailure"
        /\ analysisResult = Null
        /\ analysisError # Null
        /\ WorkflowState = "AnalysisError"
  /\ (AnalysisAnswered /\ WellFormedThreeEdits(Val(lastEvent.payload)))
     => /\ lastEvent.kind = "analysisSuccess"
        /\ analysisResult = lastEvent.payload

\* The remote operation answered with a structure whose subject is no text
\* (everything else being well-formed), and the request failed.
C14_Witness ==
  /\ AnalysisAnswered
  /\ lastEvent.kind = "analysisFailure"
  /\ Val(lastEvent.payload).subject.t # "string"
  /\ WorkflowState = "AnalysisError"

\* The first field, in the order of the checks, that fails its check.
FirstViolated(answer) ==
  CASE typeof(answer.rating) # "number" -> "rating"
    [] typeof(answer.rating) = "number"
         /\ typeof(answer.projected_rating) # "number" -> "projected_rating"
    [] typeof(answer.rating) = "number"
         /\ typeof(answer.projected_rating) = "number"
         /\ typeof(answer.composition) # "string" -> "composition"
    [] typeof(answer.rating) = "number"
         /\ typeof(answer.projected_rating) = "number"
         /\ typeof(answer.composition) = "string"
         /\ typeof(answer.lighting) # "string" -> "lighting"
    [] typeof(answer.rating) = "number"
         /\ typeof(answer.projected_rating) = "number"
         /\ typeof(answer.composition) = "string"
         /\ typeof(answer.lighting) = "string"
         /\ typeof(answer.subject) # "string" -> "subject"
    [] typeof(answer.rating) = "number"
         /\ typeof(answer.projected_rating) = "number"
         /\ typeof(answer.composition) = "string"
         /\ typeof(answer.lighting) = "string"
         /\ typeof(answer.subject) = "string"
         /\ typeof(answer.overall_comment) # "string" -> "overall_comment"
    [] OTHER -> "suggested_edits"

\* The words of the messages an analysis request can end with.
WordsOf(message) ==
  CASE message = MsgStructure ->
         {"API", "response", "does", "not", "match", "the", "expected",
          "PhotoAnalysis", "structure"}
    [] message = MsgGeminiAnalysis ->
         {"Failed", "to", "get", "analysis", "from", "Gemini", "Please",
          "check", "the", "console", "for", "more", "details"}
    [] message = MsgReanalyze ->
         {"Failed", "to", "re-analyze", "the", "improved", "image"}
    [] OTHER -> {}

\* The last event is the end of an analysis request whose answer failed the
\* validation.
ValidationFailed ==
  /\ AnalysisAnswered
  /\ lastEvent.kind = "analysisFailure"

\* C15 as stated: when validation fails, the error reported names the first
\* field, in the order of the checks, that violated its check.
C15_ErrorNamesFirstField ==
  ValidationFailed
  => /\ analysisError # Null
     /\ FirstViolated(Val(lastEvent.payload)) \in WordsOf(Val(analysisError))

\* C15, amended: when validation fails, the error reported is the same fixed
\* message whichever field violated its check (the message of a failed
\* analysis or, after "Rate This Edit", of a failed re-analysis), and it
\* names no field.
C15_ErrorIsFixedMessage ==
  ValidationFailed
  => /\ analysisError =
          Some(IF ResumedKind("reanalyze") THEN MsgReanalyze
               ELSE MsgGeminiAnalysis)
     /\ \A answer \in Responses :
          ~ValidAnalysis(answer) =>
            FirstViolated(answer) \notin WordsOf(Val(analysisError))

\* The answer had a string for suggested_edits and a number for lighting, and
\* the request failed.
C15_Witness ==
  /\ ValidationFailed
  /\ Val(lastEvent.payload).suggested_edits.t = "string"
  /\ Val(lastEvent.payload).lighting.t = "number"

Origin == [x |-> 0, y |-> 0]

\* C16: after any sequence of zoom, drag, pointer-move and end-drag
\* operations, reset yields scale = 1, pan = (0,0) and sliderPosition = 50.
C16_ResetRestoresDefaults ==
  lastEvent.kind = "reset"
  => /\ scale = Whole(1)
     /\ pan = Origin
     /\ sliderPosition = Whole(50)

\* Reset was pressed in the middle of a pan drag, which can only begin at a
\* scale above 1.
C16_Witness ==
  /\ lastEvent.kind = "reset"
  /\ isPanning
  /\ panStartRef # Null
  /\ Val(panStartRef) # Origin

\* C17: zoomOut applied (its button is enabled above scale 1) when scale
\* divided by 1.5 is below 1.1 sets scale to exactly 1 and pan to (0,0);
\* otherwise it divides scale by 1.5 and leaves pan unchanged.
C17_ZoomOutSnapsToOne ==
  [][ (lastEvent'.kind = "zoomOut" /\ ZoomOutEnabled)
      => IF Less(Over(scale, Frac(3, 2)), Frac(11, 10))
           THEN scale' = Whole(1) /\ pan' = Origin
           ELSE /\ Times(scale', Frac(3, 2)) = scale
                /\ pan' = pan ]_vars

\* Zoom Out was pressed at scale 128/81 (about 1.58, which divided by 1.5 is
\* about 1.05) in the middle of a pan drag; scale is 1 and pan is (0,0).
C17_Witness ==
  /\ lastEvent.kind = "zoomOut"
  /\ lastEvent.payload = Some(Frac(128, 81))
  /\ scale = Whole(1)
  /\ pan = Origin
  /\ isPanning

\* C18: in every reachable state 1 <= scale <= 8; zoomIn sets scale to
\* min(scale x 1.5, 8), so zoomIn at scale 8 leaves scale at 8, and zoomOut
\* at scale 1 leaves scale at 1.
C18_ScaleWithinLimits ==
  /\ [](~Less(scale, Whole(1)) /\ ~Less(Whole(8), scale))
  /\ [][ lastEvent'.kind = "zoomIn"
         => /\ scale' = MathMin(Times(scale, Frac(3, 2)), Whole(8))
            /\ scale = Whole(8) => scale' = Whole(8) ]_vars
  /\ [][ (lastEvent'.kind = "zoomOut" /\ scale = Whole(1))
         => scale' = Whole(1) ]_vars

\* Zoom In was pressed at scale 243/32 (about 7.59); scale is 8.
C18_Witness ==
  /\ lastEvent.kind = "zoomIn"
  /\ lastEvent.payload = Some(Frac(243, 32))
  /\ scale = Whole(8)

\* C19: a drag begun on the slider handle is a slider drag at any scale and
\* at once sets sliderPosition to the pointer's horizontal fraction of the
\* container times 100, clamped to [0,100]: 100 at or beyond the right edge,
\* 0 at or beyond the left edge; in every reachable state
\* 0 <= sliderPosition <= 100.
C19_HandleDragSetsClampedPosition ==
  /\ ~Less(sliderPosition, Whole(0))
  /\ ~Less(Whole(100), sliderPosition)
  /\ lastEvent.kind = "handleDown"
     => LET x == Val(lastEvent.payload).x
        IN  /\ isResizing
            /\ x >= rect.left + rect.width => sliderPosition = Whole(100)
            /\ x <= rect.left => sliderPosition = Whole(0)
            /\ (rect.left < x /\ x < rect.left + rect.width)
                 => sliderPosition.n * rect.width
                      = (x - rect.left) * 100 * sliderPosition.d

\* A drag began on the handle with the pointer right of the container while
\* the pictures were zoomed; the position is 100.
C19_Witness ==
  /\ lastEvent.kind = "handleDown"
  /\ Val(lastEvent.payload).x > rect.left + rect.width
  /\ sliderPosition = Whole(100)
  /\ isResizing
  /\ Less(Whole(1), scale)

\* C20: a drag begun on the container is a slider drag when scale = 1 and a
\* pan drag when scale > 1, never the other way round.
C20_ContainerDragModeByScale ==
  [][ lastEvent'.kind = "containerDown"
      => /\ scale = Whole(1)
              => /\ isResizing'
                 /\ UNCHANGED <<isPanning, panStartRef>>
         /\ Less(Whole(1), scale)
              => /\ isPanning'
                 /\ panStartRef' # Null
                 /\ UNCHANGED <<isResizing, sliderPosition>> ]_vars

\* A drag began on the container at scale 9/4; it is a pan drag and no
\* slider drag.
C20_Witness ==
  /\ lastEvent.kind = "containerDown"
  /\ scale = Frac(9, 4)
  /\ isPanning
  /\ ~isResizing

\* The last event is the end of an accepted request, in success or failure.
RequestEnded ==
  lastEvent.kind \in
    {"analysisSuccess", "analysisFailure", "editSuccess", "editFailure"}

\* The controller shows the analysis spinner exactly while one analysis or
\* re-analysis handler is suspended, and the editing spinner exactly while
\* one edit handler is.
ShownWhileOutstanding ==
  /\ isLoadingAnalysis => Outstanding({"analyze", "reanalyze"}) = 1
  /\ ~isLoadingAnalysis => Outstanding({"analyze", "reanalyze"}) = 0
  /\ isEditing => Outstanding({"edit"}) = 1
  /\ ~isEditing => Outstanding({"edit"}) = 0

\* C21 as stated, its part on the external call: every accepted request
\* has issued its external call when it ends, and nothing is shown as
\* analyzing or editing without a request outstanding.
C21_ExactlyOneExternalCall ==
  /\ ShownWhileOutstanding
  /\ RequestEnded => Val(lastEvent.task).phase = "remote"

\* C21, amended: every accepted request issues at most one external call
\* (a call is issued only by a handler that has issued none, and a handler
\* that has issued it only ends), each request ends in exactly one success
\* or failure transition, which a request that succeeds reaches only after
\* its call; nothing is shown as analyzing or editing without a request
\* outstanding, and when every awaited promise settles the controller leaves
\* Analyzing, ReanalyzingEdited and Editing.
C21_AtMostOneExternalCall ==
  /\ [](ShownWhileOutstanding)
  /\ []((RequestEnded /\ lastEvent.kind \in {"analysisSuccess", "editSuccess"})
          => Val(lastEvent.task).phase = "remote")
  /\ [][ lastEvent'.kind = "requestSent"
         => /\ Val(lastEvent'.task).phase = "read"
            /\ Len(inflight') = Len(inflight) ]_vars
  /\ [][ \A i \in 1..Len(inflight) :
           (inflight[i].phase = "remote" /\ Len(inflight') = Len(inflight))
             => inflight'[i].phase = "remote" ]_vars
  /\ [][ Len(inflight') < Len(inflight)
         => /\ Len(inflight') = Len(inflight) - 1
            /\ lastEvent'.kind \in
                 {"analysisSuccess", "analysisFailure", "editSuccess",
                  "editFailure"}
            /\ lastEvent'.task \in { Some(inflight[i]) : i \in 1..Len(inflight) }
            /\ IF lastEvent'.kind \in {"editSuccess", "editFailure"}
                 THEN ~isEditing' ELSE ~isLoadingAnalysis' ]_vars
  /\ isLoadingAnalysis ~> ~isLoadingAnalysis
  /\ isEditing ~> ~isEditing

\* An accepted analysis request ended in failure before its external call
\* was issued (the file could not be read, or no API key is set).
C21_Witness ==
  /\ lastEvent.kind = "analysisFailure"
  /\ Val(lastEvent.task).kind = "analyze"
  /\ Val(lastEvent.task).phase = "read"
  /\ ~isLoadingAnalysis
  /\ inflight = <<>>

\* The press of Analyze was accepted: a handler for the held image was
\* suspended and the controller shows Analyzing.
AnalysisAccepted ==
  /\ Len(inflight') = Len(inflight) + 1
  /\ inflight'[Len(inflight')].kind = "analyze"
  /\ inflight'[Len(inflight')].file = selectedFile
  /\ isLoadingAnalysis'
  /\ WorkflowState' = "Analyzing"

\* C22: with an image held in Idle, Ready or AnalysisError a press of
\* Analyze is accepted and moves the controller to Analyzing; and right
\* after the selection of an image a press of Analyze is accepted, also
\* while a request made before the selection is unresolved.
C22_AnalysisAcceptedAfterSelect ==
  [][ /\ ( /\ Pressed("analyzeClick")
           /\ selectedFile # Null
           /\ WorkflowState \in {"Idle", "Ready", "AnalysisError"} )
        => AnalysisAccepted
      /\ ( /\ Pressed("analyzeClick")
           /\ lastEvent.kind = "select"
           /\ lastEvent.payload # Null )
        => AnalysisAccepted ]_vars

\* The file that handleReanalyzeEdited makes of the edited image a
\* re-analysis handler was called for.
ReanalyzedFile(t) == Some(FileFromDataUrl(Val(t.src)))

\* C23: a re-analysis request accepted in EditReady makes the edited image
\* the held source image in the step into ReanalyzingEdited; the edited
\* image is the held source when the re-analysis ends, in success or in
\* failure; and an analysis requested right after a failed re-analysis is
\* an analysis of the edited image.
C23_EditedBecomesSourceAtRequest ==
  /\ [][ (Pressed("reanalyzeClick") /\ WorkflowState = "EditReady")
         => /\ WorkflowState' = "ReanalyzingEdited"
            /\ selectedFile' = Some(FileFromDataUrl(Val(editedImage)))
            /\ previewUrl' = editedImage ]_vars
  /\ []( ( /\ lastEvent.kind \in {"analysisSuccess", "analysisFailure"}
           /\ ResumedKind("reanalyze") )
         => selectedFile = ReanalyzedFile(Val(lastEvent.task)) )
  /\ [][ ( /\ Pressed("analyzeClick")
           /\ lastEvent.kind = "analysisFailure"
           /\ ResumedKind("reanalyze") )
         => /\ Len(inflight') = Len(inflight) + 1
            /\ inflight'[Len(inflight')].file
                 = ReanalyzedFile(Val(lastEvent.task)) ]_vars

\* The last event is the sending of an external edit request.
EditRequestSent == lastEvent.kind = "requestSent" /\ ResumedKind("edit")

\* The press of the edit button suspended a handler that holds the source
\* image and the analysis held at the press.
EditHoldsWhatWasHeld ==
  [][ (Pressed("editClick") /\ Len(inflight') = Len(inflight) + 1)
      => /\ inflight'[Len(inflight')].file = selectedFile
         /\ inflight'[Len(inflight')].analysis = analysisResult
         /\ selectedFile # Null /\ analysisResult # Null ]_vars

\* The request carries the picture and the analysis its handler holds.
EditCarriesImageAndAnalysis ==
  EditRequestSent
  => LET t == Val(lastEvent.task)
         sent == Val(lastEvent.payload)
     IN  /\ sent.operation = "edit"
         /\ sent.data = Val(t.file).data
         /\ sent.mimeType = Val(t.file).type
         /\ sent.analysis = Val(t.analysis)

\* The ratios the selector returns for the handler's analysis and the given
\* sizes.
RatiosFor(t, sizes) ==
  { getBestAspectRatio(d.width, d.height, Val(t.analysis).suggested_edits.v) :
      d \in sizes }

\* C24 as stated: every external edit request carries the source image and
\* the analysis held when the edit was requested, and the aspect ratio the
\* selector returns for that image's width and height and that analysis's
\* edit instructions.
C24_EditRequestUsesImageSize ==
  /\ EditHoldsWhatWasHeld
  /\ [](EditCarriesImageAndAnalysis)
  /\ [](EditRequestSent
         => LET t == Val(lastEvent.task)
            IN  Val(lastEvent.payload).aspectRatio
                  \in RatiosFor(t, {ImageSize(Val(t.file).data)}))

\* C24, amended: every external edit request carries the source image and
\* the analysis held when the edit was requested, and the aspect ratio the
\* selector returns for that analysis's edit instructions and either that
\* image's width and height or, when the image does not load, 1000 x 1000.
C24_EditRequestUsesImageSizeOrFallback ==
  /\ EditHoldsWhatWasHeld
  /\ [](EditCarriesImageAndAnalysis)
  /\ [](EditRequestSent
         => LET t == Val(lastEvent.task)
            IN  Val(lastEvent.payload).aspectRatio
                  \in RatiosFor(t, {ImageSize(Val(t.file).data),
                                    [width |-> 1000, height |-> 1000]}))

\* An edit request was sent for b.jpg (3 x 4) asking for a square picture:
\* its analysis names no ratio and the picture did not load.
C24_Witness ==
  /\ EditRequestSent
  /\ Val(Val(lastEvent.task).file).name = "b.jpg"
  /\ Val(Val(lastEvent.task).analysis) = Json(JNum(6), ThreeEdits)
  /\ Val(lastEvent.payload).aspectRatio = "1:1"

\* C25: the viewer's interaction mode is exactly one of none, sliding and
\* panning: the slider drag and the pan drag are never both active.
C25_OneModeAtATime == ~(isResizing /\ isPanning)

\* A pan drag is under way: startPanning has run and the drag has not ended.
PanDragUnderWay == isPanning /\ panDragStart # Null

\* The pan that the claim gives for the pointer: the pan at the start of the
\* drag moved by the way the pointer has gone since.
PanFromDragStart(pointer) ==
  LET start == Val(panDragStart)
  IN  [x |-> start.pan.x + (pointer.x - start.pointer.x),
       y |-> start.pan.y + (pointer.y - start.pointer.y)]

\* C26: during a pan drag every pointer move sets pan to the pan held at
\* the start of the drag plus the pointer's displacement since then; a move
\* back to where the drag started restores the pan held at its start.
C26_PanFollowsPointer ==
  [][ (lastEvent'.kind = "pointerMove" /\ PanDragUnderWay)
      => /\ pan' = PanFromDragStart(Val(lastEvent'.payload))
         /\ Val(lastEvent'.payload) = Val(panDragStart).pointer
              => pan' = Val(panDragStart).pan ]_vars

\* C27: a pointer move changes only what its mode owns: nothing when no
\* drag is active, only sliderPosition during a slider drag, only pan
\* during a pan drag; the end of a drag leaves no drag active and changes
\* neither sliderPosition nor scale nor pan.
C27_MoveChangesOnlyItsModesState ==
  /\ [][ lastEvent'.kind = "pointerMove"
         => /\ (~isResizing /\ ~isPanning) => UNCHANGED viewerVars
            /\ isResizing
                 => UNCHANGED <<scale, pan, isResizing, isPanning, panStartRef>>
            /\ isPanning
                 => UNCHANGED <<scale, sliderPosition, isResizing, isPanning,
                                panStartRef>> ]_vars
  /\ [][ lastEvent'.kind = "pointerUp"
         => /\ ~isResizing' /\ ~isPanning'
            /\ UNCHANGED <<sliderPosition, scale, pan>> ]_vars

\* The gesture state of the viewer as it is constructed.
GestureDefault ==
  /\ sliderPosition = Whole(50)
  /\ scale = Whole(1)
  /\ pan = Origin
  /\ ~isResizing
  /\ ~isPanning

\* The step presents a pair of images to the viewer that it was not showing
\* before: the viewer is mounted, or mounted with other images.
NewPairPresented ==
  /\ ViewerMounted'
  /\ \/ ~ViewerMounted
     \/ previewUrl' # previewUrl
     \/ editedImage' # editedImage

\* C28: whenever a new pair of original and edited image is presented to
\* the viewer its gesture state is the default one (sliderPosition 50,
\* scale 1, pan (0,0), no drag active) in the state that first shows the
\* pair: nothing carries over from the pair shown before.
C28_NewPairStartsAtDefault ==
  [][NewPairPresented => GestureDefault']_vars

\* A pair has just been presented: the edit of the held image arrived and
\* the viewer shows it next to its source, in its default state.
C28_Witness ==
  /\ lastEvent.kind = "editSuccess"
  /\ ViewerMounted
  /\ editedImage = lastEvent.payload
  /\ GestureDefault

\* The part of the container's width on which the original layer is seen,
\* in hundredths.
RevealedPart == Minus(Whole(100), BeforeClipPath.right)

\* C29: in every state of the viewer the original layer and the edited
\* layer are drawn with the same scale and the same pan, which are the
\* viewer's scale and pan; sliderPosition decides the part of the original
\* layer that is revealed from the left and nothing else: a step that moves
\* the slider by a drag changes the transform of neither layer.
C29_LayersShareTransform ==
  /\ []( /\ BeforeLayerTransform = AfterLayerTransform
         /\ AfterLayerTransform.scale = scale
         /\ AfterLayerTransform.translate = pan
         /\ RevealedPart = sliderPosition
         /\ BeforeClipPath.top = Whole(0)
         /\ BeforeClipPath.bottom = Whole(0)
         /\ BeforeClipPath.left = Whole(0) )
  /\ [][ ( /\ sliderPosition' # sliderPosition
           /\ lastEvent'.kind \in {"handleDown", "containerDown", "pointerMove"} )
         => /\ AfterLayerTransform' = AfterLayerTransform
            /\ BeforeLayerTransform' = BeforeLayerTransform ]_vars

\* The viewer is zoomed and panned with the slider off its middle, moved
\* there by a drag of the handle.
C29_Witness ==
  /\ Less(Whole(1), scale)
  /\ pan # Origin
  /\ sliderPosition = Whole(25)
  /\ lastEvent.kind = "pointerMove"
  /\ isResizing
  /\ BeforeLayerTransform = [translate |-> pan, scale |-> scale]

\* C30: every analysis that App holds has exactly 3 suggested edits.
C30_HeldAnalysisHasThreeEdits ==
  analysisResult # Null
  => Len(Val(analysisResult).suggested_edits.v) = 3

\* C31: in every state a held analysis and a held analysis error are not
\* both present, and a held edited image and a held edit error are not both
\* present.
C31_ResultAndErrorExclusive ==
  /\ ~(analysisResult # Null /\ analysisError # Null)
  /\ ~(editedImage # Null /\ editError # Null)

\* An edit of an analysed image has just failed: the analysis and the edit
\* error are held, no analysis error and no edited image.
C31_Witness ==
  /\ lastEvent.kind = "editFailure"
  /\ analysisResult # Null
  /\ editError # Null
  /\ analysisError = Null
  /\ editedImage = Null

\* A request has been sent to a remote operation and not been answered.
RequestsOutstanding ==
  Cardinality({ i \in 1..Len(inflight) : inflight[i].phase = "remote" })

\* C32: in every state at most one handler is suspended, of whatever kind,
\* and so at most one external request is outstanding: an analysis or
\* re-analysis and an edit are never under way together, also after image
\* selections made while a request is unresolved.
C32_OneRequestOfAnyKind ==
  /\ Outstanding({"analyze", "reanalyze", "edit"}) <= 1
  /\ RequestsOutstanding <= 1
  /\ ~(Outstanding({"analyze", "reanalyze"}) > 0 /\ Outstanding({"edit"}) > 0)

\* An image was selected while a request was outstanding, which still is.
C32_Witness ==
  /\ lastEvent.kind = "select"
  /\ selectedFile # Null
  /\ RequestsOutstanding = 1
  /\ inflight[1].abandoned

\* C33: the held source image, once an image is held, is replaced only by an
\* image selection or by a re-analysis that was requested after the latest
\* selection: a re-analysis requested before the selection of the held
\* image never puts the edited image in its place.
C33_SourceKeptUntilNextRequest ==
  [][ (selectedFile # Null /\ selectedFile' # selectedFile)
      => \/ lastEvent'.kind = "select"
         \/ /\ lastEvent'.kind = "fetchDone"
            /\ ~Val(lastEvent'.task).abandoned ]_vars

AnalysisSucceeded ==
  /\ lastEvent.kind = "analysisSuccess"
  /\ analysisResult # Null
  /\ ~isLoadingAnalysis

\* C34: whenever a successful analysis has just brought the controller to
\* hold its result, neither an edit error nor an edited image is held: the
\* edit error of an earlier edit is not shown alongside the new analysis.
C34_NoEditLeftoverAtReady ==
  AnalysisSucceeded => (editError = Null /\ editedImage = Null)

\* The comparison view is rendered: the edited panel is shown and a preview
\* of the source is held.
ComparisonShown == ViewerMounted

\* C35: whenever the comparison view is shown, the edited image in it is
\* the result of an edit of the source image held now, which is the image
\* of the preview shown beside it; an edited image made from an image
\* selected earlier is never shown beside another source.
C35_EditedIsOfHeldSource ==
  ComparisonShown =>
    /\ selectedFile # Null
    /\ Val(previewUrl).data = Val(selectedFile).data
    /\ editedImage = Some(DataUrl(Edited(Val(selectedFile).data)))

C35_Witness ==
  /\ ComparisonShown
  /\ lastEvent.kind = "editSuccess"
  /\ Val(selectedFile).name = "b.jpg"

AnalysisRequestSent == lastEvent.kind = "requestSent" /\ ResumedKind("analyze")

\* C36: a press of Analyze in EditReady is accepted: the held edited image
\* is discarded, the held source image stays as it is, and the request that
\* goes out carries the source image held at the press, not the edited one.
C36_AnalyzeInEditReady ==
  /\ [][ (Pressed("analyzeClick") /\ WorkflowState = "EditReady")
         => /\ AnalysisAccepted
            /\ editedImage' = Null
            /\ analysisResult' = Null
            /\ UNCHANGED <<selectedFile, previewUrl>>
            /\ Val(selectedFile).data # Val(editedImage).data ]_vars
  /\ [](AnalysisRequestSent
        => LET t == Val(lastEvent.task)
               sent == Val(lastEvent.payload)
           IN  /\ sent.operation = "analyze"
               /\ sent.data = Val(t.file).data
               /\ sent.mimeType = Val(t.file).type)

\* C36 witness: Analyze was pressed in EditReady; the image of the suspended
\* handler is the source, and the edited image the press discarded is not.
C36_Witness ==
  /\ lastEvent.kind = "analyzeClick"
  /\ lastEvent.payload # Null
  /\ Val(lastEvent.payload).analysis # Null
  /\ Val(lastEvent.payload).edited # Null
  /\ WorkflowState = "Analyzing"
  /\ inflight[1].file = selectedFile
  /\ editedImage = Null

\* C37: a press of Close in EditReady discards the edited image and nothing
\* else: the controller is in Ready with the same source image and the same
\* analysis, no handler is suspended by it (no request goes out), and the
\* edit button is rendered again.
C37_CloseReturnsToReady ==
  [][ (Pressed("closeClick") /\ WorkflowState = "EditReady")
      => /\ editedImage' = Null
         /\ UNCHANGED <<selectedFile, previewUrl, analysisResult,
                        analysisError, editError, isLoadingAnalysis,
                        isEditing, inflight>>
         /\ inflight = <<>>
         /\ WorkflowState' = "Ready"
         /\ EditButtonShown'
         /\ selectedFile' # Null ]_vars

\* C37 witness: Close was pressed in EditReady and discarded an edited
\* image; the controller is in Ready with the edit button rendered.
C37_Witness ==
  /\ lastEvent.kind = "closeClick"
  /\ lastEvent.payload # Null
  /\ WorkflowState = "Ready"
  /\ EditButtonShown
  /\ editedImage = Null

\* C38: in every state of the viewer, scale = 1 implies pan = (0,0), also
\* when Zoom Out or Reset is pressed while a pan drag is under way and the
\* pointer moves afterwards.
C38_NoPanAtScaleOne ==
  scale = Whole(1) => pan = Origin

=============================================================================
